---- MODULE Spec2Model ----
(***************************************************************************)
(* Model of the creational-pattern examples:                               *)
(*   - creational_patterns/singleton/naiveSingleton.py : the Singleton     *)
(*     metaclass, its class-keyed registry `_instance` and __call__;      *)
(*   - creational_patterns/factory_method/src/factory_method.py : the two  *)
(*     concrete factories' create_country.                                 *)
(* Three specifications share the variables:                               *)
(*   Spec        sequential construction requests (one __call__ per step)  *)
(*   SpecConc    threads running __call__ line by line, interleaved        *)
(*   SpecFactory calls of the two create_country methods                   *)
(***************************************************************************)
EXTENDS Integers, Sequences, FiniteSets

VARIABLES
    _instance,  \* Singleton._instance: class -> object reference, or None
    objects,    \* heap: objects[r] is the instance with reference r
    ctorLog,    \* every invocation of the real constructor, in order
    last,       \* outcome of the latest sequential request
    returned,   \* per class, the references handed back to callers
    requests,   \* per class, the number of requests started
    pc,         \* per thread, position inside __call__
    tcls,       \* per thread, the class (self) of its request
    targs,      \* per thread, the arguments of its request
    built,      \* per thread, the value of super().__call__(...) it holds
    ret,        \* per thread, the reference it returned
    calls       \* log of create_country calls

vars == <<_instance, objects, ctorLog, last, returned, requests,
          pc, tcls, targs, built, ret, calls>>

singletonVars == <<_instance, objects, ctorLog, last, returned, requests>>
threadVars == <<pc, tcls, targs, built, ret>>

----------------------------------------------------------------------------
(* Bounds *)

MaxRequests == 3
NThreads == 2
MaxCalls == 2

----------------------------------------------------------------------------
(* Values *)

\* The absent reference; object references are 1, 2, ...
None == 0

NoClass == "NoClass"

NoError == [type |-> "none", origin |-> "none", cls |-> NoClass, args |-> <<>>]

\* Classes whose metaclass is Singleton.  NetworkDriver is the class of the
\* source; Configured stands for a client class whose __init__ takes one
\* positional argument and keeps it.
Classes == {"NetworkDriver", "Configured"}

\* Positional argument tuples a caller may pass.
ArgTuples == {<<>>, <<1>>, <<2>>}

Threads == 1..NThreads

\* Number of positional arguments the class's constructor accepts.
\* NetworkDriver defines no __init__, so object's constructor takes none.
Arity(K) == IF K = "NetworkDriver" THEN 0 ELSE 1

\* super(Singleton, self).__call__(*args, **kwds): type.__call__ builds a new
\* object, or raises TypeError when the arguments do not fit the constructor.
ConstructorRaises(K, args) == Len(args) # Arity(K)

NewObject(K, args) == [cls |-> K, init |-> args]

ConstructorError(K, args) ==
    [type |-> "TypeError", origin |-> "constructor", cls |-> K, args |-> args]

\* Error of a failed subscript self._instance[self].
KeyError(K) ==
    [type |-> "KeyError", origin |-> "registry", cls |-> K, args |-> <<>>]

\* Variant: one key for every class.
RegistryKeyShared(K) == "NetworkDriver"

\* The key under which a class is looked up and stored: the class itself.
RegistryKey(K) == K

\* Variant: the membership test never finds the class.
AbsentAlways(reg, K) == TRUE

\* self not in self._instance
Absent(reg, K) == reg[RegistryKey(K)] = None

\* Variant: the result of the constructor is not kept.
StoreEntryDropped(reg, K, ref) == reg

\* Variant: the store rebinds _instance to a new one-entry dict.
StoreEntryFreshDict(reg, K, ref) ==
    [k \in DOMAIN reg |-> IF k = RegistryKey(K) THEN ref ELSE None]

\* self._instance[self] = obj
StoreEntry(reg, K, ref) == [reg EXCEPT ![RegistryKey(K)] = ref]

\* self._instance[self]
ReadEntry(reg, K) == reg[RegistryKey(K)]

\* Reference of the next object the allocator hands out.
FreshRef(heap) == Len(heap) + 1

NoRequest == [cls |-> NoClass, args |-> <<>>, outcome |-> "none", value |-> None,
              error |-> NoError, constructed |-> FALSE]

----------------------------------------------------------------------------
(* Initial state: the class body runs `_instance = {}`. *)

Init ==
    /\ _instance = [K \in Classes |-> None]
    /\ objects = <<>>
    /\ ctorLog = <<>>
    /\ last = NoRequest
    /\ returned = [K \in Classes |-> {}]
    /\ requests = [K \in Classes |-> 0]
    /\ pc = [t \in Threads |-> "idle"]
    /\ tcls = [t \in Threads |-> NoClass]
    /\ targs = [t \in Threads |-> <<>>]
    /\ built = [t \in Threads |-> None]
    /\ ret = [t \in Threads |-> None]
    /\ calls = <<>>

----------------------------------------------------------------------------
(* Sequential requests: one whole Singleton.__call__ per step. *)

TotalRequests == requests["NetworkDriver"] + requests["Configured"]

\* Variant: a placeholder entry is stored before the constructor runs and
\* stays behind when it raises.
RegistryAfterRaisePlaceholder(reg, K) == StoreEntry(reg, K, -1)

\* The registry after line 20 raised inside super().__call__: the exception
\* leaves the statement before the subscript assignment runs.
RegistryAfterRaise(reg, K) == reg

\* Variant: the request that built an object returns that object.
ReturnValueLocal(reg, K, builtRef) ==
    IF builtRef # None THEN builtRef ELSE ReadEntry(reg, K)

\* The value __call__ returns on line 21: the entry read back from the
\* registry, not the local result of the constructor.
ReturnValue(reg, K, builtRef) == ReadEntry(reg, K)

\* Variant: __call__ catches the constructor's error and raises its own.
PropagateWrapped(err) ==
    [err EXCEPT !.type = "RuntimeError", !.origin = "registry"]

\* __call__ has no try/except: an error raised on line 20 reaches the caller
\* as it is.
Propagate(err) == err

\* def __call__(self, *args, **kwds), with self = K
Call(K, args) ==
    /\ TotalRequests < MaxRequests
    /\ requests' = [requests EXCEPT ![K] = @ + 1]
    /\ LET absent == Absent(_instance, K)                        \* line 19
           raises == absent /\ ConstructorRaises(K, args)          \* line 20
           ref    == IF absent THEN FreshRef(objects) ELSE None
           reg    == IF ~absent THEN _instance
                     ELSE IF raises THEN RegistryAfterRaise(_instance, K)
                     ELSE StoreEntry(_instance, K, ref)             \* line 20
           out    == ReturnValue(reg, K, ref)                       \* line 21
       IN /\ _instance' = reg
          /\ objects' = IF absent /\ ~raises
                        THEN Append(objects, NewObject(K, args))
                        ELSE objects
          /\ ctorLog' = IF absent
                        THEN Append(ctorLog, [cls |-> K, args |-> args,
                                              ok |-> ~raises])
                        ELSE ctorLog
          /\ last' = [cls |-> K, args |-> args,
                      outcome |-> IF raises \/ out = None
                                  THEN "raised" ELSE "returned",
                      value |-> IF raises THEN None ELSE out,
                      error |-> IF raises THEN Propagate(ConstructorError(K, args))
                                ELSE IF out = None THEN KeyError(K)
                                ELSE NoError,
                      constructed |-> absent]
          /\ returned' = IF raises \/ out = None THEN returned
                         ELSE [returned EXCEPT ![K] = @ \cup {out}]
    /\ UNCHANGED threadVars
    /\ UNCHANGED calls

Next == \E K \in Classes, args \in ArgTuples : Call(K, args)

Spec == Init /\ [][Next]_vars

----------------------------------------------------------------------------
(* Concurrent requests: each thread runs __call__ one line at a time. *)

\* A thread enters __call__ (line 18) for class K with arguments args.
Start(t, K, args) ==
    /\ pc[t] = "idle"
    /\ pc' = [pc EXCEPT ![t] = "check"]
    /\ tcls' = [tcls EXCEPT ![t] = K]
    /\ targs' = [targs EXCEPT ![t] = args]
    /\ requests' = [requests EXCEPT ![K] = @ + 1]
    /\ UNCHANGED <<_instance, objects, ctorLog, last, returned, built, ret, calls>>

\* line 19: if self not in self._instance
Check(t) ==
    /\ pc[t] = "check"
    /\ pc' = [pc EXCEPT ![t] = IF Absent(_instance, tcls[t])
                               THEN "construct" ELSE "read"]
    /\ UNCHANGED <<_instance, objects, ctorLog, last, returned, requests,
                   tcls, targs, built, ret, calls>>

\* line 20, right-hand side: super(Singleton, self).__call__(*args, **kwds)
Construct(t) ==
    /\ pc[t] = "construct"
    /\ LET K == tcls[t]
           raises == ConstructorRaises(K, targs[t])
       IN /\ ctorLog' = Append(ctorLog, [cls |-> K, args |-> targs[t],
                                         ok |-> ~raises])
          /\ IF raises
             THEN /\ pc' = [pc EXCEPT ![t] = "raised"]
                  /\ UNCHANGED <<objects, built>>
             ELSE /\ pc' = [pc EXCEPT ![t] = "store"]
                  /\ built' = [built EXCEPT ![t] = FreshRef(objects)]
                  /\ objects' = Append(objects, NewObject(K, targs[t]))
    /\ UNCHANGED <<_instance, last, returned, requests, tcls, targs, ret, calls>>

\* line 20, assignment: self._instance[self] = <result>
Store(t) ==
    /\ pc[t] = "store"
    /\ _instance' = StoreEntry(_instance, tcls[t], built[t])
    /\ pc' = [pc EXCEPT ![t] = "read"]
    /\ UNCHANGED <<objects, ctorLog, last, returned, requests,
                   tcls, targs, built, ret, calls>>

\* line 21: return self._instance[self]
Read(t) ==
    /\ pc[t] = "read"
    /\ LET out == ReturnValue(_instance, tcls[t], built[t])
       IN IF out = None
          THEN /\ pc' = [pc EXCEPT ![t] = "keyerror"]
               /\ UNCHANGED <<ret, returned>>
          ELSE /\ pc' = [pc EXCEPT ![t] = "done"]
               /\ ret' = [ret EXCEPT ![t] = out]
               /\ returned' = [returned EXCEPT ![tcls[t]] = @ \cup {out}]
    /\ UNCHANGED <<_instance, objects, ctorLog, last, requests,
                   tcls, targs, built, calls>>

NextConc ==
    \/ \E t \in Threads, K \in Classes, args \in ArgTuples : Start(t, K, args)
    \/ \E t \in Threads : Check(t)
    \/ \E t \in Threads : Construct(t)
    \/ \E t \in Threads : Store(t)
    \/ \E t \in Threads : Read(t)

SpecConc == Init /\ [][NextConc]_vars

----------------------------------------------------------------------------
(* Factory Method: the two concrete factories. *)

\* Country labels passed to create_country: the three the code knows and
\* labels it does not (another country, a different spelling, the empty string).
Countries == {"USA", "Spain", "Japan", "France", "usa", ""}

Factories == {"Fiat", "Virtual"}

\* Variant: the country label is matched without regard to case.
FiatCreateCountryAnyCase(country) ==
    IF country \in {"USA", "usa"} THEN "USD"
    ELSE IF country = "Spain" THEN "EUR"
    ELSE IF country = "Japan" THEN "JPY"
    ELSE "Unknown Country"

\* FiatCurrencyFactory.create_country
FiatCurrencyFactory_create_country(country) ==
    IF country = "USA" THEN "USD"
    ELSE IF country = "Spain" THEN "EUR"
    ELSE IF country = "Japan" THEN "JPY"
    ELSE "Unknown Country"

\* VirtualCurrencyFactory.create_country
VirtualCurrencyFactory_create_country(country) ==
    IF country = "USA" THEN "Bitcoin"
    ELSE IF country = "Spain" THEN "Ethereum"
    ELSE IF country = "Japan" THEN "Dogecoin"
    ELSE "Unknown Country"

\* fiat_factory.create_country(country)
FiatCall(country) ==
    /\ Len(calls) < MaxCalls
    /\ calls' = Append(calls, [factory |-> "Fiat", country |-> country,
                               result |-> FiatCurrencyFactory_create_country(country)])
    /\ UNCHANGED singletonVars
    /\ UNCHANGED threadVars

\* virtual_factory.create_country(country)
VirtualCall(country) ==
    /\ Len(calls) < MaxCalls
    /\ calls' = Append(calls, [factory |-> "Virtual", country |-> country,
                               result |-> VirtualCurrencyFactory_create_country(country)])
    /\ UNCHANGED singletonVars
    /\ UNCHANGED threadVars

NextFactory ==
    \/ \E country \in Countries : FiatCall(country)
    \/ \E country \in Countries : VirtualCall(country)

SpecFactory == Init /\ [][NextFactory]_vars

----------------------------------------------------------------------------
(* Properties *)

\* Positions in ctorLog of the constructor invocations for class K.
CtorIdx(K) == {i \in 1..Len(ctorLog) : ctorLog[i].cls = K}

CtorCount(K) == Cardinality(CtorIdx(K))

SuccIdx(K) == {i \in CtorIdx(K) : ctorLog[i].ok}

SuccCount(K) == Cardinality(SuccIdx(K))

\* References of the objects of class K on the heap.
InstancesOf(K) == {r \in 1..Len(objects) : objects[r].cls = K}

\* This step is a sequential request for class K.
IsRequestFor(K) == requests'[K] = requests[K] + 1

\* C1 as stated: for every class K with at least one sequential request, the
\* real constructor has been invoked exactly once and the requests returned one
\* and the same reference.
C1_ExactlyOneInvocation ==
    \A K \in Classes :
        requests[K] >= 1 => CtorCount(K) = 1 /\ Cardinality(returned[K]) = 1

\* C1 amended: for every class K, the constructor is invoked on every request
\* up to and including the first whose constructor call succeeds and on none
\* after it (exactly once, on the first request, when that request's
\* constructor call does not raise); at most one invocation succeeds and all
\* requests that return return the same reference, the registered instance.
C1_OneSuccessfulConstruction ==
    \A K \in Classes :
        /\ SuccCount(K) <= 1
        /\ SuccCount(K) = 0 => CtorCount(K) = requests[K] /\ returned[K] = {}
        /\ SuccCount(K) = 1 =>
              /\ \A i \in CtorIdx(K) : \A j \in SuccIdx(K) : i <= j
              /\ CtorCount(K) <= requests[K]
              /\ returned[K] = {_instance[K]}
              /\ InstancesOf(K) = {_instance[K]}
        /\ (CtorIdx(K) # {} /\ \A i \in CtorIdx(K) : \E j \in SuccIdx(K) : j <= i)
              => CtorCount(K) = 1
        /\ (last.cls = K /\ SuccCount(K) = 1) =>
              last.outcome = "returned" /\ last.value = _instance[K]

\* Three requests for NetworkDriver, one constructor invocation, one reference.
C1_Witness ==
    /\ requests["NetworkDriver"] = 3
    /\ CtorCount("NetworkDriver") = 1
    /\ returned["NetworkDriver"] = {1}
    /\ ~last.constructed

\* C2: a request for a class that already has an entry, whatever its
\* arguments, raises nothing, returns the stored instance and leaves the
\* registry, the heap (so the instance still holds the first request's
\* arguments) and the constructor log as they were.
C2_CachedIgnoresArgs ==
    [][\A K \in Classes :
          (IsRequestFor(K) /\ _instance[K] # None) =>
              /\ last'.cls = K
              /\ last'.outcome = "returned"
              /\ last'.value = _instance[K]
              /\ ~last'.constructed
              /\ _instance' = _instance
              /\ objects' = objects
              /\ ctorLog' = ctorLog
              /\ \A i \in SuccIdx(K) :
                    objects'[last'.value].init = ctorLog[i].args]_vars

\* Configured was built with (1,); a later request with no arguments, which
\* the constructor would reject, returned that instance.
C2_Witness ==
    /\ last.cls = "Configured"
    /\ last.args = <<>>
    /\ last.outcome = "returned"
    /\ ~last.constructed
    /\ objects[last.value].init = <<1>>

\* C3: two distinct classes never share a reference: neither their registry
\* entries nor the references returned to their callers coincide.
C3_DistinctClassesDistinctInstances ==
    \A K1 \in Classes : \A K2 \in Classes \ {K1} :
        /\ returned[K1] \cap returned[K2] = {}
        /\ _instance[K1] # None => _instance[K1] # _instance[K2]
        /\ _instance[K1] # None => objects[_instance[K1]].cls = K1

C3_Witness ==
    /\ returned["NetworkDriver"] # {}
    /\ returned["Configured"] # {}
    /\ _instance["NetworkDriver"] # None
    /\ _instance["Configured"] # None

\* C4: the registry starts empty; a class has no entry before its first
\* request, an entry appears only in a request for that class, and an entry
\* once stored stays, mapped to the same instance, in every later state.
C4_LazyAndPersistent ==
    /\ \A K \in Classes : _instance[K] = None
    /\ [](\A K \in Classes : requests[K] = 0 => _instance[K] = None)
    /\ [][\A K \in Classes :
             /\ _instance[K] # None => _instance'[K] = _instance[K]
             /\ (_instance[K] = None /\ _instance'[K] # None) => IsRequestFor(K)]_vars

\* NetworkDriver's entry survived two later requests, one of them for
\* NetworkDriver; Configured, requested only with rejected arguments, has none.
C4_Witness ==
    /\ requests["NetworkDriver"] >= 2
    /\ _instance["NetworkDriver"] = 1
    /\ requests["Configured"] >= 1
    /\ _instance["Configured"] = None

\* C5 as stated: however the threads' checks, constructor calls and stores
\* interleave, at most one instance of a class is ever constructed and all
\* threads that return for that class return the same reference.
C5_OneInstanceUnderContention ==
    \A K \in Classes :
        /\ Cardinality(InstancesOf(K)) <= 1
        /\ \A t1 \in Threads : \A t2 \in Threads :
              (pc[t1] = "done" /\ pc[t2] = "done" /\ tcls[t1] = K /\ tcls[t2] = K)
                  => ret[t1] = ret[t2]

\* C6: a sequential request ends in an error only when the constructor raised
\* on a class without entry, and the error the caller sees is exactly the
\* constructor's; no error originates in the registry.
C6_ConstructorErrorPropagates ==
    /\ last.error.origin # "registry"
    /\ last.outcome = "raised" =>
          /\ last.constructed
          /\ ConstructorRaises(last.cls, last.args)
          /\ last.error = ConstructorError(last.cls, last.args)
    /\ last.outcome = "returned" => last.error = NoError

\* The first request for a class raised.
C6_Witness ==
    /\ last.outcome = "raised"
    /\ requests[last.cls] = 1
    /\ last.error.type = "TypeError"

\* C8: a request whose constructor raises leaves the registry unchanged; a
\* request for a class without entry always invokes the constructor with that
\* request's own arguments; and at most one invocation per class succeeds.
C8_FailedConstructionLeavesNoEntry ==
    /\ [](\A K \in Classes : SuccCount(K) <= 1)
    /\ [][\A K \in Classes :
             IsRequestFor(K) =>
                /\ last'.outcome = "raised" =>
                      _instance' = _instance /\ objects' = objects
                /\ _instance[K] = None =>
                      /\ Len(ctorLog') = Len(ctorLog) + 1
                      /\ ctorLog'[Len(ctorLog')].cls = K
                      /\ ctorLog'[Len(ctorLog')].args = last'.args]_vars

\* The constructor of one class was invoked twice, with different arguments,
\* and succeeded once.
C8_Witness ==
    \E K \in Classes :
        /\ CtorCount(K) = 2
        /\ SuccCount(K) = 1
        /\ \E i \in CtorIdx(K) : \E j \in CtorIdx(K) :
              ctorLog[i].args # ctorLog[j].args

\* C9: a request for class K leaves the entry of every other class as it was,
\* and a request for a class that has an entry leaves the whole registry as
\* it was.
C9_RequestFrame ==
    [][\A K \in Classes :
          IsRequestFor(K) =>
             /\ \A K2 \in Classes \ {K} : _instance'[K2] = _instance[K2]
             /\ _instance[K] # None => _instance' = _instance]_vars

\* A class was constructed while the other class already had an entry.
C9_Witness ==
    /\ last.constructed
    /\ last.outcome = "returned"
    /\ \E K2 \in Classes \ {last.cls} :
          _instance[K2] # None /\ _instance[K2] < last.value

\* C10: a thread whose membership check finds an entry goes to the final read
\* without invoking the constructor, then or later; and a thread that returns
\* returns the entry the registry holds for its class when it reads.
C10_CheckAfterStoreAndFinalRead ==
    [][\A t \in Threads :
          /\ (pc[t] = "check" /\ pc'[t] # "check" /\ _instance[tcls[t]] # None) =>
                /\ pc'[t] = "read"
                /\ built'[t] = None
                /\ ctorLog' = ctorLog
                /\ objects' = objects
          /\ (pc[t] \in {"read", "done"}) =>
                built'[t] = built[t] /\ pc'[t] \in {"read", "done"}
          /\ (pc[t] = "read" /\ pc'[t] = "done") =>
                ret'[t] = _instance[tcls[t]] /\ ret'[t] # None]_vars

\* A thread that built an object of its own returned another thread's.
C10_Witness ==
    \E t \in Threads :
        /\ pc[t] = "done"
        /\ built[t] # None
        /\ ret[t] # built[t]

\* The currencies of the two factories, as the claim lists them.
ExpectedCurrency(factory, country) ==
    IF factory = "Fiat"
    THEN CASE country = "USA" -> "USD"
           [] country = "Spain" -> "EUR"
           [] country = "Japan" -> "JPY"
           [] OTHER -> "Unknown Country"
    ELSE CASE country = "USA" -> "Bitcoin"
           [] country = "Spain" -> "Ethereum"
           [] country = "Japan" -> "Dogecoin"
           [] OTHER -> "Unknown Country"

\* C7: every call of either factory, whatever calls came before it, returns
\* the currency the table gives for its label, "Unknown Country" for any other
\* label, and touches no state of the registry.
C7_FactoriesArePureLookups ==
    /\ \A i \in 1..Len(calls) :
          calls[i].result = ExpectedCurrency(calls[i].factory, calls[i].country)
    /\ \A i \in 1..Len(calls) : \A j \in 1..Len(calls) :
          (calls[i].factory = calls[j].factory /\ calls[i].country = calls[j].country)
              => calls[i].result = calls[j].result
    /\ _instance = [K \in Classes |-> None]
    /\ objects = <<>>

\* A fiat call for Spain right after a virtual call for Spain gives EUR.
C7_Witness ==
    /\ Len(calls) >= 2
    /\ calls[1] = [factory |-> "Virtual", country |-> "Spain", result |-> "Ethereum"]
    /\ calls[2] = [factory |-> "Fiat", country |-> "Spain", result |-> "EUR"]

====
